---- MODULE Spec2Model ----
(***************************************************************************)
(* A model of the Uniform Graph Generator (ugg.cpp): command line parsing, *)
(* the multi-threaded edge sampler over a shared hash table, the vertex-ID *)
(* expander and the three output files.                                    *)
(***************************************************************************)
EXTENDS Integers, Sequences, FiniteSets, TLC

\* ------------------------------------------------------------------ bounds
\* largest --num_vertices / --num_edges argument of the whole-program model
MaxVertices == 3
MaxEdges == 3
\* largest value std::thread::hardware_concurrency() returns in the model
\* (it returns 0 where the number of hardware threads is not computable)
MaxThreads == 2
\* tables of at most this many edges are iterated in every possible order
MaxPermuted == 4
\* make_vertices on its own: the largest vertex count, and the largest numerator
\* and denominator of the expansion factor
MaxVerticesWide == 8
MaxQuotaEdges == 12
MaxQuotaThreads == 5
MaxFactorNum == 9
MaxFactorDen == 4
\* the seeded sampler: the largest vertex count, and the most iterations of the
\* while loop a thread makes
SeedVertices == 3
SeedIterations == 2

VARIABLES
    argv,                      \* the parsed command line (cxxopts result)
    hardware_concurrency,      \* what std::thread::hardware_concurrency() returns
    g_exp_factor_vertex_id,    \* a rational <<numerator, denominator>>
    g_num_edges,
    g_num_vertices,
    g_output_prefix,
    g_seed,
    pc,                        \* where main() is
    exit_status,               \* "running", "EXIT_SUCCESS", "EXIT_FAILURE", "SIGABRT"
    num_threads,               \* make_edges: local
    thread_id,                 \* make_edges: index of the spawn / join loops
    thread_state,              \* per thread: "none", "running", "finished"
    num_edges_to_create,       \* per thread: the lambda's local quota
    num_edges_created_insofar, \* per thread: the lambda's local counter
    edges_created,             \* the cuckoohash_map's key set
    edges,                     \* main: the sorted vector of edges
    vertices,                  \* main: the vector of vertex IDs
    created,                   \* what exists on disk: "dir", ".v", ".e", ".properties"
    file_v,                    \* lines of <prefix>.v
    file_e,                    \* lines of <prefix>.e, each <<id1, id2>>
    file_properties,           \* the two counts written to <prefix>.properties
    mt19937_64,                \* per seed: the outputs the engine has produced so far
    random_generator,          \* per thread: how many outputs its engine has produced
    rerun                      \* a second run of the threads on the same seed

config_vars == <<argv, hardware_concurrency>>
global_vars == <<g_exp_factor_vertex_id, g_num_edges, g_num_vertices, g_output_prefix, g_seed>>
sampler_vars == <<num_threads, thread_id, thread_state, num_edges_to_create,
                  num_edges_created_insofar, edges_created>>
output_vars == <<edges, vertices, created, file_v, file_e, file_properties>>
seed_vars == <<mt19937_64, random_generator, rerun>>
vars == <<config_vars, global_vars, pc, exit_status, sampler_vars, output_vars, seed_vars>>

Threads == 0 .. (MaxThreads - 1)

\* ------------------------------------------------------------------ Edge
Min(a, b) == IF a < b THEN a ELSE b
Max(a, b) == IF a < b THEN b ELSE a

\* Edge::Edge without the min / max: the pair is stored as drawn
Edge_as_drawn(source, destination) ==
    [m_source |-> source, m_destination |-> destination]

\* Edge::Edge: the stored pair is (min, max)
Edge(source, destination) ==
    [m_source |-> Min(source, destination), m_destination |-> Max(source, destination)]

\* the comparator without its tie-break on the destination
edge_less_source_only(e1, e2) == e1.m_source < e2.m_source

\* the comparator handed to std::sort in main
edge_less(e1, e2) ==
    \/ e1.m_source < e2.m_source
    \/ e1.m_source = e2.m_source /\ e1.m_destination < e2.m_destination

RECURSIVE sort_insert(_, _)
sort_insert(e, s) ==
    IF s = <<>> THEN <<e>>
    ELSE IF edge_less(e, Head(s)) THEN <<e>> \o s
    ELSE <<Head(s)>> \o sort_insert(e, Tail(s))

\* std::sort(begin(edges), end(edges), comparator)
RECURSIVE std_sort(_)
std_sort(s) == IF s = <<>> THEN <<>> ELSE sort_insert(Head(s), std_sort(Tail(s)))

\* ------------------------------------------------------------------ command line
\* the expansion factors given on the command line, as <<numerator, denominator>>
Factors == {<<1, 2>>, <<1, 1>>, <<3, 2>>, <<2, 1>>}
Prefixes == {"", "out/g"}

Options(maxV, maxE, factors) ==
    [help : BOOLEAN,
     has_num_vertices : BOOLEAN, num_vertices : 0 .. maxV,
     has_num_edges : BOOLEAN, num_edges : 0 .. maxE,
     has_max_vertex_id : BOOLEAN, max_vertex_id : factors,
     has_output : BOOLEAN, output : Prefixes,
     has_seed : BOOLEAN, seed : {42}]

\* an option that is not given carries no value: one representative each
WellFormed(a) ==
    /\ ~a.has_num_vertices => a.num_vertices = 0
    /\ ~a.has_num_edges => a.num_edges = 0
    /\ ~a.has_max_vertex_id => a.max_vertex_id = <<1, 1>>
    /\ ~a.has_output => a.output = ""
    /\ a.help => /\ a.has_num_vertices /\ a.has_num_edges /\ a.has_output
                 /\ ~a.has_max_vertex_id /\ ~a.has_seed

ArgSpace == {a \in Options(MaxVertices, MaxEdges, Factors) : WellFormed(a)}

\* the checks without the one on the expansion factor
parse_error_factor_unchecked(a) ==
    IF ~a.has_num_vertices THEN "Missing mandatory argument --num_vertices"
    ELSE IF a.num_vertices = 0 THEN "No vertices to generate"
    ELSE IF ~a.has_num_edges THEN "Missing mandatory argument --num_edges"
    ELSE IF a.num_edges = 0 THEN "No edges to generate"
    ELSE IF ~a.has_output \/ a.output = "" THEN "Missing mandatory argument --output"
    ELSE "none"

\* the first check of parse_command_line_arguments that fails, or "none"
parse_error(a) ==
    IF ~a.has_num_vertices THEN "Missing mandatory argument --num_vertices"
    ELSE IF a.num_vertices = 0 THEN "No vertices to generate"
    ELSE IF ~a.has_num_edges THEN "Missing mandatory argument --num_edges"
    ELSE IF a.num_edges = 0 THEN "No edges to generate"
    ELSE IF ~a.has_output \/ a.output = "" THEN "Missing mandatory argument --output"
    ELSE IF a.has_max_vertex_id /\ a.max_vertex_id[1] < a.max_vertex_id[2]
         THEN "Expansion factor (max_vertex_id) is less than 1"
    ELSE "none"

\* the product with the count of vertices, not halved
target_num_edges_not_halved(num_edges, num_vertices) ==
    IF num_edges < num_vertices THEN num_edges * num_vertices ELSE num_edges

\* the product halved, instead of the product with the halved count
target_num_edges_product_first(num_edges, num_vertices) ==
    IF num_edges < num_vertices THEN (num_edges * num_vertices) \div 2 ELSE num_edges

\* the value g_num_edges ends with, given the two arguments
target_num_edges(num_edges, num_vertices) ==
    IF num_edges < num_vertices THEN num_edges * (num_vertices \div 2) ELSE num_edges

parse_command_line_arguments ==
    /\ pc = "parse"
    /\ IF argv.help
       THEN /\ pc' = "exit" /\ exit_status' = "EXIT_SUCCESS"
            /\ UNCHANGED global_vars
       ELSE LET err == parse_error(argv)
                gotV == argv.has_num_vertices
                gotE == gotV /\ argv.num_vertices # 0 /\ argv.has_num_edges
                gotO == gotE /\ argv.num_edges # 0 /\ argv.has_output /\ argv.output # ""
            IN  /\ g_num_vertices' = IF gotV THEN argv.num_vertices ELSE g_num_vertices
                /\ g_num_edges' = IF gotE
                                  THEN IF argv.num_edges = 0 THEN 0
                                       ELSE target_num_edges(argv.num_edges, argv.num_vertices)
                                  ELSE g_num_edges
                /\ g_output_prefix' = IF gotO THEN argv.output ELSE g_output_prefix
                /\ g_exp_factor_vertex_id' =
                       IF gotO /\ err = "none"
                       THEN IF argv.has_max_vertex_id THEN argv.max_vertex_id ELSE <<1, 1>>
                       ELSE g_exp_factor_vertex_id
                /\ g_seed' = IF err = "none" /\ argv.has_seed THEN argv.seed ELSE g_seed
                /\ IF err = "none"
                   THEN pc' = "make_edges" /\ exit_status' = exit_status
                   ELSE pc' = "exit" /\ exit_status' = "EXIT_FAILURE"
    /\ UNCHANGED <<config_vars, sampler_vars, output_vars, seed_vars>>

\* ------------------------------------------------------------------ make_edges
\* the distribution built on [0, g_num_vertices] instead of [0, g_num_vertices - 1]
uniform_distribution_inclusive(num_vertices) == 0 .. num_vertices

\* the values uniform_int_distribution<uint64_t>{0, g_num_vertices - 1} returns
uniform_distribution(num_vertices) == 0 .. (num_vertices - 1)

\* the quota rounded up for every thread
quota_round_up(tid, num_edges, nthreads) ==
    (num_edges \div nthreads) + (IF num_edges % nthreads > 0 THEN 1 ELSE 0)

\* the quota without the remainder term
quota_no_remainder(tid, num_edges, nthreads) == num_edges \div nthreads

\* the quota with <= in the test of the remainder
quota_remainder_inclusive(tid, num_edges, nthreads) ==
    (num_edges \div nthreads) + (IF tid <= (num_edges % nthreads) THEN 1 ELSE 0)

\* num_edges_to_create of the thread `tid`
quota(tid, num_edges, nthreads) ==
    (num_edges \div nthreads) + (IF tid < (num_edges % nthreads) THEN 1 ELSE 0)

\* the iteration without the test for a self-loop
create_edges_body_keeps_loops(table, created_insofar, a, b) ==
    LET edge == Edge(a, b) IN
    IF edge \notin table
    THEN [edges_created |-> table \cup {edge},
          num_edges_created_insofar |-> created_insofar + 1]
    ELSE [edges_created |-> table, num_edges_created_insofar |-> created_insofar]

\* the iteration ignoring what insert returns
create_edges_body_counts_duplicates(table, created_insofar, a, b) ==
    LET edge == Edge(a, b) IN
    IF edge.m_source = edge.m_destination
    THEN [edges_created |-> table, num_edges_created_insofar |-> created_insofar]
    ELSE [edges_created |-> table \cup {edge},
          num_edges_created_insofar |-> created_insofar + 1]

\* one iteration of the while loop of create_edges, having drawn a and b:
\* the table and the local counter after it
create_edges_body(table, created_insofar, a, b) ==
    LET edge == Edge(a, b) IN
    IF edge.m_source = edge.m_destination
    THEN [edges_created |-> table, num_edges_created_insofar |-> created_insofar]
    ELSE IF edge \notin table
         THEN [edges_created |-> table \cup {edge},
               num_edges_created_insofar |-> created_insofar + 1]
         ELSE [edges_created |-> table, num_edges_created_insofar |-> created_insofar]

\* make_edges up to the first emplace_back; with no thread to spawn both loops
\* are skipped
make_edges_enter ==
    /\ pc = "make_edges"
    /\ num_threads' = hardware_concurrency
    /\ thread_id' = 0
    /\ pc' = IF hardware_concurrency = 0 THEN "collect" ELSE "spawn"
    /\ UNCHANGED <<config_vars, global_vars, exit_status, thread_state, num_edges_to_create,
                   num_edges_created_insofar, edges_created, output_vars, seed_vars>>

\* threads.emplace_back(create_edges, thread_id): the thread starts with its locals set
emplace_back ==
    /\ pc = "spawn"
    /\ thread_id < num_threads
    /\ thread_state' = [thread_state EXCEPT ![thread_id] = "running"]
    /\ num_edges_to_create' =
           [num_edges_to_create EXCEPT ![thread_id] = quota(thread_id, g_num_edges, num_threads)]
    /\ num_edges_created_insofar' = [num_edges_created_insofar EXCEPT ![thread_id] = 0]
    /\ thread_id' = IF thread_id + 1 < num_threads THEN thread_id + 1 ELSE 0
    /\ pc' = IF thread_id + 1 < num_threads THEN "spawn" ELSE "join"
    /\ UNCHANGED <<config_vars, global_vars, exit_status, num_threads, edges_created, output_vars, seed_vars>>

\* one iteration of the while loop in the thread t
create_edges(t) ==
    /\ thread_state[t] = "running"
    /\ num_edges_created_insofar[t] < num_edges_to_create[t]
    /\ \E a, b \in uniform_distribution(g_num_vertices) :
          LET r == create_edges_body(edges_created, num_edges_created_insofar[t], a, b) IN
          /\ edges_created' = r.edges_created
          /\ num_edges_created_insofar' =
                 [num_edges_created_insofar EXCEPT ![t] = r.num_edges_created_insofar]
    /\ UNCHANGED <<config_vars, global_vars, pc, exit_status, num_threads, thread_id,
                   thread_state, num_edges_to_create, output_vars, seed_vars>>

\* the while condition is false: the thread t ends
create_edges_return(t) ==
    /\ thread_state[t] = "running"
    /\ ~(num_edges_created_insofar[t] < num_edges_to_create[t])
    /\ thread_state' = [thread_state EXCEPT ![t] = "finished"]
    /\ UNCHANGED <<config_vars, global_vars, pc, exit_status, num_threads, thread_id,
                   num_edges_to_create, num_edges_created_insofar, edges_created, output_vars, seed_vars>>

\* for(auto& t: threads) t.join(): returns once the thread has ended
\* the loop going over the threads without waiting for them
join_without_waiting ==
    /\ pc = "join"
    /\ thread_id' = IF thread_id + 1 < num_threads THEN thread_id + 1 ELSE thread_id
    /\ pc' = IF thread_id + 1 < num_threads THEN "join" ELSE "collect"
    /\ UNCHANGED <<config_vars, global_vars, exit_status, num_threads, thread_state,
                   num_edges_to_create, num_edges_created_insofar, edges_created, output_vars, seed_vars>>

join ==
    /\ pc = "join"
    /\ thread_state[thread_id] = "finished"
    /\ thread_id' = IF thread_id + 1 < num_threads THEN thread_id + 1 ELSE thread_id
    /\ pc' = IF thread_id + 1 < num_threads THEN "join" ELSE "collect"
    /\ UNCHANGED <<config_vars, global_vars, exit_status, num_threads, thread_state,
                   num_edges_to_create, num_edges_created_insofar, edges_created, output_vars, seed_vars>>

RECURSIVE Orderings(_)
Orderings(S) ==
    IF S = {} THEN {<<>>}
    ELSE UNION {{<<x>> \o p : p \in Orderings(S \ {x})} : x \in S}

RECURSIVE Ascending(_)
Ascending(S) ==
    IF S = {} THEN <<>>
    ELSE LET x == CHOOSE y \in S : \A z \in S :
                      \/ y.m_source < z.m_source
                      \/ y.m_source = z.m_source /\ y.m_destination <= z.m_destination
         IN <<x>> \o Ascending(S \ {x})

Reverse(s) == [i \in 1 .. Len(s) |-> s[Len(s) + 1 - i]]
Rotations(s) == {SubSeq(s, k, Len(s)) \o SubSeq(s, 1, k - 1) : k \in 1 .. Len(s)}

\* the orders in which the locked table is iterated: unspecified, so every order
\* for a table of at most MaxPermuted edges, and beyond that the rotations of the
\* ascending and of the descending order
lock_table(table) ==
    IF Cardinality(table) <= MaxPermuted THEN Orderings(table)
    ELSE Rotations(Ascending(table)) \cup Rotations(Reverse(Ascending(table)))

\* the rest of make_edges (copy of the table, assertion) and the std::sort of main
make_edges_collect ==
    /\ pc = "collect"
    /\ \E lst_edges \in lock_table(edges_created) :
          IF Len(lst_edges) = g_num_edges
          THEN /\ edges' = std_sort(lst_edges)
               /\ pc' = "make_vertices"
               /\ exit_status' = exit_status
          ELSE /\ edges' = edges
               /\ pc' = "exit"
               /\ exit_status' = "SIGABRT"
    /\ UNCHANGED <<config_vars, global_vars, sampler_vars, vertices, created, file_v, file_e,
                   file_properties, seed_vars>>

\* ------------------------------------------------------------------ make_vertices
\* vertex_id >= g_exp_factor_vertex_id * vertices.size(), the factor being num/den
RECURSIVE make_vertices_loop(_, _, _, _)
make_vertices_loop(vs, vertex_id, num_vertices, factor) ==
    IF Len(vs) < num_vertices
    THEN IF vertex_id * factor[2] >= factor[1] * Len(vs)
         THEN make_vertices_loop(Append(vs, vertex_id + 1), vertex_id + 1, num_vertices, factor)
         ELSE make_vertices_loop(vs, vertex_id + 1, num_vertices, factor)
    ELSE vs

\* the loop with > in place of >=
RECURSIVE make_vertices_loop_strict(_, _, _, _)
make_vertices_loop_strict(vs, vertex_id, num_vertices, factor) ==
    IF Len(vs) < num_vertices
    THEN IF vertex_id * factor[2] > factor[1] * Len(vs)
         THEN make_vertices_loop_strict(Append(vs, vertex_id + 1), vertex_id + 1,
                                        num_vertices, factor)
         ELSE make_vertices_loop_strict(vs, vertex_id + 1, num_vertices, factor)
    ELSE vs

make_vertices_strict(num_vertices, factor) ==
    make_vertices_loop_strict(<<1>>, 1, num_vertices, factor)

\* the loop pushing vertex_id instead of vertex_id + 1
RECURSIVE make_vertices_loop_no_shift(_, _, _, _)
make_vertices_loop_no_shift(vs, vertex_id, num_vertices, factor) ==
    IF Len(vs) < num_vertices
    THEN IF vertex_id * factor[2] >= factor[1] * Len(vs)
         THEN make_vertices_loop_no_shift(Append(vs, vertex_id), vertex_id + 1,
                                          num_vertices, factor)
         ELSE make_vertices_loop_no_shift(vs, vertex_id + 1, num_vertices, factor)
    ELSE vs

make_vertices_no_shift(num_vertices, factor) ==
    make_vertices_loop_no_shift(<<1>>, 1, num_vertices, factor)

\* the loop with the product truncated to an integer before the comparison
RECURSIVE make_vertices_loop_truncating(_, _, _, _)
make_vertices_loop_truncating(vs, vertex_id, num_vertices, factor) ==
    IF Len(vs) < num_vertices
    THEN IF vertex_id >= (factor[1] * Len(vs)) \div factor[2]
         THEN make_vertices_loop_truncating(Append(vs, vertex_id + 1), vertex_id + 1,
                                            num_vertices, factor)
         ELSE make_vertices_loop_truncating(vs, vertex_id + 1, num_vertices, factor)
    ELSE vs

make_vertices_truncating(num_vertices, factor) ==
    make_vertices_loop_truncating(<<1>>, 1, num_vertices, factor)

make_vertices(num_vertices, factor) == make_vertices_loop(<<1>>, 1, num_vertices, factor)

call_make_vertices ==
    /\ pc = "make_vertices"
    /\ vertices' = make_vertices(g_num_vertices, g_exp_factor_vertex_id)
    /\ pc' = "mkdir"
    /\ UNCHANGED <<config_vars, global_vars, exit_status, sampler_vars, edges, created,
                   file_v, file_e, file_properties, seed_vars>>

\* ------------------------------------------------------------------ output
\* filesystem::mkdir(basedir): creates the directory, or throws
mkdir ==
    /\ pc = "mkdir"
    /\ \E ok \in BOOLEAN :
          IF ok
          THEN created' = created \cup {"dir"} /\ pc' = "save_vertices"
               /\ exit_status' = exit_status
          ELSE created' = created /\ pc' = "exit" /\ exit_status' = "EXIT_FAILURE"
    /\ UNCHANGED <<config_vars, global_vars, sampler_vars, edges, vertices, file_v, file_e,
                   file_properties, seed_vars>>

\* save_vertices without the test of out.good()
save_vertices_unchecked ==
    /\ pc = "save_vertices"
    /\ \E good \in BOOLEAN :
          IF good
          THEN /\ created' = created \cup {".v"}
               /\ file_v' = vertices
               /\ pc' = "save_edges" /\ exit_status' = exit_status
          ELSE /\ created' = created /\ file_v' = file_v
               /\ pc' = "save_edges" /\ exit_status' = exit_status
    /\ UNCHANGED <<config_vars, global_vars, sampler_vars, edges, vertices, file_e,
                   file_properties, seed_vars>>

save_vertices ==
    /\ pc = "save_vertices"
    /\ \E good \in BOOLEAN :
          IF good
          THEN /\ created' = created \cup {".v"}
               /\ file_v' = vertices
               /\ pc' = "save_edges" /\ exit_status' = exit_status
          ELSE /\ created' = created /\ file_v' = file_v
               /\ pc' = "exit" /\ exit_status' = "EXIT_FAILURE"
    /\ UNCHANGED <<config_vars, global_vars, sampler_vars, edges, vertices, file_e,
                   file_properties, seed_vars>>

\* the two assertions of save_edges on the edge e
in_range(e, vs) == e.m_source < Len(vs) /\ e.m_destination < Len(vs)

\* the line save_edges writes for the edge e
edge_line(e, vs) == <<vs[e.m_source + 1], vs[e.m_destination + 1]>>

\* the edges written before the first failing assertion
RECURSIVE asserted_prefix(_, _)
asserted_prefix(es, vs) ==
    IF es = <<>> \/ ~in_range(Head(es), vs) THEN <<>>
    ELSE <<Head(es)>> \o asserted_prefix(Tail(es), vs)

save_edges ==
    /\ pc = "save_edges"
    /\ \E good \in BOOLEAN :
          IF good
          THEN LET written == asserted_prefix(edges, vertices) IN
               /\ created' = created \cup {".e"}
               /\ file_e' = [i \in 1 .. Len(written) |-> edge_line(written[i], vertices)]
               /\ IF Len(written) = Len(edges)
                  THEN pc' = "save_properties" /\ exit_status' = exit_status
                  ELSE pc' = "exit" /\ exit_status' = "SIGABRT"
          ELSE /\ created' = created /\ file_e' = file_e
               /\ pc' = "exit" /\ exit_status' = "EXIT_FAILURE"
    /\ UNCHANGED <<config_vars, global_vars, sampler_vars, edges, vertices, file_v,
                   file_properties, seed_vars>>

\* save_properties, then "Done" and return 0
save_properties ==
    /\ pc = "save_properties"
    /\ \E good \in BOOLEAN :
          IF good
          THEN /\ created' = created \cup {".properties"}
               /\ file_properties' = [vertices |-> g_num_vertices, edges |-> g_num_edges]
               /\ pc' = "exit" /\ exit_status' = "EXIT_SUCCESS"
          ELSE /\ created' = created /\ file_properties' = file_properties
               /\ pc' = "exit" /\ exit_status' = "EXIT_FAILURE"
    /\ UNCHANGED <<config_vars, global_vars, sampler_vars, edges, vertices, file_v, file_e, seed_vars>>

\* ------------------------------------------------------------------ the program
\* the state main() starts in, the command line being a
Start(a) ==
    /\ argv = a
    /\ hardware_concurrency \in 0 .. MaxThreads
    /\ g_exp_factor_vertex_id = <<0, 1>>
    /\ g_num_edges = 0
    /\ g_num_vertices = 0
    /\ g_output_prefix = ""
    /\ g_seed = 7
    /\ pc = "parse"
    /\ exit_status = "running"
    /\ num_threads = 0
    /\ thread_id = 0
    /\ thread_state = [t \in Threads |-> "none"]
    /\ num_edges_to_create = [t \in Threads |-> 0]
    /\ num_edges_created_insofar = [t \in Threads |-> 0]
    /\ edges_created = {}
    /\ edges = <<>>
    /\ vertices = <<>>
    /\ created = {}
    /\ file_v = <<>>
    /\ file_e = <<>>
    /\ file_properties = [vertices |-> 0, edges |-> 0]
    /\ mt19937_64 = <<>>
    /\ random_generator = [t \in Threads |-> 0]
    /\ rerun = <<>>

Init == \E a \in ArgSpace : Start(a)

Next ==
    \/ parse_command_line_arguments
    \/ make_edges_enter
    \/ emplace_back
    \/ \E t \in Threads : create_edges(t)
    \/ \E t \in Threads : create_edges_return(t)
    \/ join
    \/ make_edges_collect
    \/ call_make_vertices
    \/ mkdir
    \/ save_vertices
    \/ save_edges
    \/ save_properties

Spec == Init /\ [][Next]_vars

\* ------------------------------------------------------------------ properties
\* make_edges has joined every thread
Joined == num_threads >= 1 /\ pc \notin {"spawn", "join"}

\* the largest number of edges of a simple undirected graph on n vertices
MaxSimpleEdges(n) == (n * (n - 1)) \div 2

\* C1: once every thread of make_edges is joined the shared table holds exactly
\* g_num_edges edges, whatever the interleaving of the threads was, so the
\* assertion edges.size() == g_num_edges of make_edges does not fail and the
\* vector handed to main has g_num_edges elements.
C1_ExactEdgeCount ==
    Joined =>
        /\ Cardinality(edges_created) = g_num_edges
        /\ ~(exit_status = "SIGABRT" /\ ".e" \notin created)
        /\ (pc \notin {"collect", "exit"} => Len(edges) = g_num_edges)

\* two threads with unequal quotas (3 edges over 2 threads) were joined
C1_Witness ==
    /\ pc = "make_vertices"
    /\ num_threads = 2
    /\ g_num_edges = 3
    /\ num_edges_to_create[0] = 2 /\ num_edges_to_create[1] = 1
    /\ Cardinality(edges_created) = 3

\* C2: in every state every edge of the shared table is stored with
\* m_source < m_destination (so it is no self-loop), and no unordered pair of
\* vertices is stored twice.
C2_CanonicalUnique ==
    /\ \A e \in edges_created : e.m_source < e.m_destination
    /\ \A e1, e2 \in edges_created :
          {e1.m_source, e1.m_destination} = {e2.m_source, e2.m_destination} => e1 = e2

\* both threads have inserted, and the table is the complete graph on 3 vertices:
\* every draw of either orientation of the three pairs has ended in one stored edge
C2_Witness ==
    /\ num_threads = 2
    /\ g_num_vertices = 3
    /\ num_edges_created_insofar[0] >= 1 /\ num_edges_created_insofar[1] >= 1
    /\ edges_created = {Edge(1, 0), Edge(2, 0), Edge(2, 1)}

\* ------------------------------------------------------------------ the scenario of C4
\* -V 5 -E 4 -m 1.0 --seed 42 -o out/g
ScenarioArgs ==
    [help |-> FALSE,
     has_num_vertices |-> TRUE, num_vertices |-> 5,
     has_num_edges |-> TRUE, num_edges |-> 4,
     has_max_vertex_id |-> TRUE, max_vertex_id |-> <<1, 1>>,
     has_output |-> TRUE, output |-> "out/g",
     has_seed |-> TRUE, seed |-> 42]

ScenarioInit == Start(ScenarioArgs)
ScenarioSpec == ScenarioInit /\ [][Next]_vars

\* the lines of the edge file are pairwise different, as unordered pairs too
DistinctLines(lines) ==
    \A i, j \in 1 .. Len(lines) :
        i # j => /\ lines[i] # lines[j]
                 /\ lines[i] # <<lines[j][2], lines[j][1]>>

\* C4 as the specification states it: a complete run of -V 5 -E 4 -m 1.0 writes
\* the vertex IDs 1..5 and exactly 4 distinct edge lines with id1 < id2.
C4_ScenarioFourLines ==
    exit_status = "EXIT_SUCCESS" =>
        /\ file_v = <<1, 2, 3, 4, 5>>
        /\ Len(file_e) = 4
        /\ DistinctLines(file_e)
        /\ \A i \in 1 .. Len(file_e) : file_e[i][1] < file_e[i][2]

\* C4 amended: 4 < 5, so 4 is taken as the average degree and the target is
\* 4 * (5 / 2) = 8: a complete run writes the vertex IDs 1..5 and exactly 8
\* distinct edge lines, each with id1 < id2 and no repeated pair.
C4_ScenarioEightLines ==
    exit_status = "EXIT_SUCCESS" =>
        /\ file_v = <<1, 2, 3, 4, 5>>
        /\ Len(file_e) = 8
        /\ DistinctLines(file_e)
        /\ \A i \in 1 .. Len(file_e) : file_e[i][1] < file_e[i][2]

\* a complete run of the scenario, all three files written
C4_Witness ==
    /\ argv = ScenarioArgs
    /\ exit_status = "EXIT_SUCCESS"
    /\ created = {"dir", ".v", ".e", ".properties"}
    /\ Len(file_e) = 8

\* ------------------------------------------------------------------ properties (2)
\* the command line was accepted
Parsed == pc # "parse" /\ ~argv.help /\ parse_error(argv) = "none"

\* C5: after parsing, the target is (E * V) / 2 rounded down when the argument E
\* is less than V, for odd V too, and E itself otherwise.
C5_TargetIsHalfProduct ==
    Parsed =>
        g_num_edges = IF argv.num_edges < argv.num_vertices
                      THEN (argv.num_edges * argv.num_vertices) \div 2
                      ELSE argv.num_edges

\* C7: with the expansion factor 1, given or by default, make_vertices returns
\* 1, 2, ..., num_vertices.
C7_ContiguousIds ==
    (Parsed /\ pc \notin {"make_edges", "spawn", "join", "collect", "make_vertices"}
            /\ vertices # <<>> /\ g_exp_factor_vertex_id = <<1, 1>>)
        => vertices = [i \in 1 .. g_num_vertices |-> i]

\* -m is not given and three vertices were generated
C7_Witness ==
    /\ ~argv.has_max_vertex_id
    /\ g_num_vertices = 3
    /\ pc = "mkdir"
    /\ vertices = <<1, 2, 3>>

\* C8: the lines of the edge file ascend by (source_id, destination_id), strictly,
\* and each line has source_id < destination_id, whatever the expansion factor.
C8_SortedLines ==
    /\ \A i \in 1 .. Len(file_e) : file_e[i][1] < file_e[i][2]
    /\ \A i \in 1 .. (Len(file_e) - 1) :
          \/ file_e[i][1] < file_e[i + 1][1]
          \/ file_e[i][1] = file_e[i + 1][1] /\ file_e[i][2] < file_e[i + 1][2]

\* the complete graph on 3 vertices written with the factor 3/2: three lines,
\* two of them with the same source
C8_Witness ==
    /\ ".e" \in created
    /\ g_exp_factor_vertex_id = <<3, 2>>
    /\ file_e = <<<<1, 3>>, <<1, 4>>, <<3, 4>>>>

Range(s) == {s[i] : i \in 1 .. Len(s)}

\* C9: both indices of every sampled edge are below num_vertices, neither
\* assertion of save_edges fails, and both IDs of every line of the edge file are
\* lines of the vertex file.
C9_EndpointsAreVertices ==
    /\ \A e \in edges_created :
          /\ 0 <= e.m_source /\ e.m_source < g_num_vertices
          /\ 0 <= e.m_destination /\ e.m_destination < g_num_vertices
    /\ ~(exit_status = "SIGABRT" /\ ".e" \in created)
    /\ ".e" \in created =>
          /\ Len(file_e) = g_num_edges
          /\ \A i \in 1 .. Len(file_e) :
                file_e[i][1] \in Range(file_v) /\ file_e[i][2] \in Range(file_v)

\* an edge file with an edge on the last vertex, IDs spread by the factor 2
C9_Witness ==
    /\ ".e" \in created
    /\ g_num_vertices = 3
    /\ g_exp_factor_vertex_id = <<2, 1>>
    /\ file_v = <<1, 3, 5>>
    /\ <<1, 5>> \in Range(file_e)
    /\ Len(file_e) >= 2

\* ------------------------------------------------------------------ make_vertices alone
\* the expansion factors >= 1 with bounded numerator and denominator
WideFactors ==
    {f \in (1 .. MaxFactorNum) \X (1 .. MaxFactorDen) : f[1] >= f[2]}

\* main() at its call of make_vertices, the two globals it reads being n and f
AtMakeVertices(n, f) ==
    /\ argv = [help |-> FALSE,
               has_num_vertices |-> TRUE, num_vertices |-> n,
               has_num_edges |-> TRUE, num_edges |-> n,
               has_max_vertex_id |-> TRUE, max_vertex_id |-> f,
               has_output |-> TRUE, output |-> "out/g",
               has_seed |-> FALSE, seed |-> 42]
    /\ hardware_concurrency = 1
    /\ g_exp_factor_vertex_id = f
    /\ g_num_edges = n
    /\ g_num_vertices = n
    /\ g_output_prefix = "out/g"
    /\ g_seed = 7
    /\ pc = "make_vertices"
    /\ exit_status = "running"
    /\ num_threads = 0
    /\ thread_id = 0
    /\ thread_state = [t \in Threads |-> "none"]
    /\ num_edges_to_create = [t \in Threads |-> 0]
    /\ num_edges_created_insofar = [t \in Threads |-> 0]
    /\ edges_created = {}
    /\ edges = <<>>
    /\ vertices = <<>>
    /\ created = {}
    /\ file_v = <<>>
    /\ file_e = <<>>
    /\ file_properties = [vertices |-> 0, edges |-> 0]
    /\ mt19937_64 = <<>>
    /\ random_generator = [t \in Threads |-> 0]
    /\ rerun = <<>>

VerticesInit == \E n \in 1 .. MaxVerticesWide : \E f \in WideFactors : AtMakeVertices(n, f)
VerticesNext == call_make_vertices
VerticesSpec == VerticesInit /\ [][VerticesNext]_vars

\* ceil(num / den) for num >= 0, den > 0
Ceil(num, den) == (num + den - 1) \div den

\* C6: for num_vertices >= 1 and a rational factor f >= 1, make_vertices returns
\* num_vertices IDs, strictly increasing, the first being 1 and the last at most
\* ceil(f * (num_vertices - 1)) + 1.
C6_VertexIds ==
    pc = "mkdir" =>
        /\ Len(vertices) = g_num_vertices
        /\ vertices[1] = 1
        /\ \A i \in 1 .. (Len(vertices) - 1) : vertices[i] < vertices[i + 1]
        /\ vertices[Len(vertices)] <=
               Ceil(g_exp_factor_vertex_id[1] * (g_num_vertices - 1),
                    g_exp_factor_vertex_id[2]) + 1

\* five vertices spread by the factor 5/2
C6_Witness ==
    /\ pc = "mkdir"
    /\ g_num_vertices = 5
    /\ g_exp_factor_vertex_id = <<5, 2>>
    /\ vertices = <<1, 4, 6, 9, 11>>

\* ------------------------------------------------------------------ fairness
\* the thread t draws a pair that is not in the table yet
draws_new_edge(t) == create_edges(t) /\ edges_created' # edges_created

\* every thread and main keep being scheduled, and a thread that can draw a pair
\* not yet in the table eventually draws one
Fairness ==
    /\ WF_vars(parse_command_line_arguments)
    /\ WF_vars(make_edges_enter)
    /\ WF_vars(emplace_back)
    /\ WF_vars(join)
    /\ \A t \in Threads : WF_vars(draws_new_edge(t))
    /\ \A t \in Threads : WF_vars(create_edges_return(t))

FairSpec == Init /\ [][Next]_vars /\ Fairness

\* the target is within the number of edges of a simple graph
WithinCeiling == g_num_edges <= MaxSimpleEdges(g_num_vertices)

\* some pair that is no self-loop is not in the table
FreePairExists ==
    \E a, b \in uniform_distribution(g_num_vertices) :
        a # b /\ Edge(a, b) \notin edges_created

\* C10: when num_edges <= num_vertices * (num_vertices - 1) / 2, a thread below
\* its quota always has a pair left to insert, and under fairness every thread
\* reaches its quota and make_edges gets past its joins.
C10_SamplerTerminates ==
    /\ [](\A t \in Threads :
            (WithinCeiling /\ thread_state[t] = "running"
                 /\ num_edges_created_insofar[t] < num_edges_to_create[t])
                => FreePairExists)
    /\ ((pc = "make_edges" /\ WithinCeiling) ~> (pc = "collect"))

\* two threads have filled the complete graph on 3 vertices and were joined
C10_Witness ==
    /\ pc = "collect"
    /\ num_threads = 2
    /\ g_num_vertices = 3
    /\ g_num_edges = 3
    /\ \A t \in Threads : thread_state[t] = "finished"
    /\ num_edges_created_insofar = num_edges_to_create

\* ------------------------------------------------------------------ the seeded sampler
\* Two runs of the threads of make_edges with the same configuration and seed.
\* mt19937_64[s] holds the values uniform_distribution(random_generator) has
\* returned so far from the engine seeded with s: a value is arbitrary the first
\* time a position of a stream is read, and the same whenever that position is
\* read again, by either run.

\* the seed of the engine of the thread t
thread_seed(t) == g_seed + t

\* both runs right after the spawn loop, nothing drawn yet
SeedInit ==
    \E n \in 2 .. SeedVertices : \E w \in 1 .. MaxThreads :
    \E e \in 1 .. MaxSimpleEdges(n) :
        /\ argv = [help |-> FALSE,
                   has_num_vertices |-> TRUE, num_vertices |-> n,
                   has_num_edges |-> TRUE, num_edges |-> e,
                   has_max_vertex_id |-> FALSE, max_vertex_id |-> <<1, 1>>,
                   has_output |-> TRUE, output |-> "out/g",
                   has_seed |-> TRUE, seed |-> 42]
        /\ hardware_concurrency = w
        /\ g_exp_factor_vertex_id = <<1, 1>>
        /\ g_num_edges = target_num_edges(e, n)
        /\ g_num_vertices = n
        /\ g_output_prefix = "out/g"
        /\ g_seed = 42
        /\ pc = "join"
        /\ exit_status = "running"
        /\ num_threads = w
        /\ thread_id = 0
        /\ thread_state = [t \in Threads |-> IF t < w THEN "running" ELSE "none"]
        /\ num_edges_to_create =
               [t \in Threads |-> IF t < w THEN quota(t, target_num_edges(e, n), w) ELSE 0]
        /\ num_edges_created_insofar = [t \in Threads |-> 0]
        /\ edges_created = {}
        /\ edges = <<>>
        /\ vertices = <<>>
        /\ created = {}
        /\ file_v = <<>>
        /\ file_e = <<>>
        /\ file_properties = [vertices |-> 0, edges |-> 0]
        /\ mt19937_64 = [s \in {42 + t : t \in Threads} |-> <<>>]
        /\ random_generator = [t \in Threads |-> 0]
        /\ rerun = [edges_created |-> {},
                    num_edges_created_insofar |-> [t \in Threads |-> 0],
                    random_generator |-> [t \in Threads |-> 0]]

\* the stream of the seed s once the outputs a, b were read at the position drawn
stream_after(s, drawn, a, b) ==
    IF drawn + 2 <= Len(mt19937_64[s]) THEN mt19937_64[s]
    ELSE mt19937_64[s] \o <<a, b>>

\* a and b are what the two calls of uniform_distribution return at the position drawn
outputs_at(s, drawn, a, b) ==
    drawn + 2 <= Len(mt19937_64[s]) =>
        a = mt19937_64[s][drawn + 1] /\ b = mt19937_64[s][drawn + 2]

\* the iteration with one engine position for all the threads
seeded_create_edges_shared_engine(t) ==
    /\ thread_state[t] = "running"
    /\ num_edges_created_insofar[t] < num_edges_to_create[t]
    /\ random_generator[t] < 2 * SeedIterations
    /\ \E a, b \in uniform_distribution(g_num_vertices) :
          LET r == create_edges_body(edges_created, num_edges_created_insofar[t], a, b) IN
          /\ outputs_at(thread_seed(t), random_generator[t], a, b)
          /\ mt19937_64' = [mt19937_64 EXCEPT ![thread_seed(t)] =
                                stream_after(thread_seed(t), random_generator[t], a, b)]
          /\ random_generator' = [u \in Threads |-> random_generator[t] + 2]
          /\ edges_created' = r.edges_created
          /\ num_edges_created_insofar' =
                 [num_edges_created_insofar EXCEPT ![t] = r.num_edges_created_insofar]
    /\ UNCHANGED <<config_vars, global_vars, pc, exit_status, num_threads, thread_id,
                   thread_state, num_edges_to_create, output_vars, rerun>>

\* one iteration of the while loop in the thread t, drawing from its engine
seeded_create_edges(t) ==
    /\ thread_state[t] = "running"
    /\ num_edges_created_insofar[t] < num_edges_to_create[t]
    /\ random_generator[t] < 2 * SeedIterations
    /\ \E a, b \in uniform_distribution(g_num_vertices) :
          LET r == create_edges_body(edges_created, num_edges_created_insofar[t], a, b) IN
          /\ outputs_at(thread_seed(t), random_generator[t], a, b)
          /\ mt19937_64' = [mt19937_64 EXCEPT ![thread_seed(t)] =
                                stream_after(thread_seed(t), random_generator[t], a, b)]
          /\ random_generator' = [random_generator EXCEPT ![t] = @ + 2]
          /\ edges_created' = r.edges_created
          /\ num_edges_created_insofar' =
                 [num_edges_created_insofar EXCEPT ![t] = r.num_edges_created_insofar]
    /\ UNCHANGED <<config_vars, global_vars, pc, exit_status, num_threads, thread_id,
                   thread_state, num_edges_to_create, output_vars, rerun>>

\* the same iteration in the second run
rerun_create_edges(t) ==
    /\ thread_state[t] = "running"
    /\ rerun.num_edges_created_insofar[t] < num_edges_to_create[t]
    /\ rerun.random_generator[t] < 2 * SeedIterations
    /\ \E a, b \in uniform_distribution(g_num_vertices) :
          LET r == create_edges_body(rerun.edges_created,
                                     rerun.num_edges_created_insofar[t], a, b) IN
          /\ outputs_at(thread_seed(t), rerun.random_generator[t], a, b)
          /\ mt19937_64' = [mt19937_64 EXCEPT ![thread_seed(t)] =
                                stream_after(thread_seed(t), rerun.random_generator[t], a, b)]
          /\ rerun' = [edges_created |-> r.edges_created,
                       num_edges_created_insofar |->
                           [rerun.num_edges_created_insofar EXCEPT
                                ![t] = r.num_edges_created_insofar],
                       random_generator |-> [rerun.random_generator EXCEPT ![t] = @ + 2]]
    /\ UNCHANGED <<config_vars, global_vars, pc, exit_status, sampler_vars, output_vars,
                   random_generator>>

SeedNext ==
    \/ \E t \in Threads : seeded_create_edges(t)
    \/ \E t \in Threads : rerun_create_edges(t)

SeedSpec == SeedInit /\ [][SeedNext]_vars

\* every thread of a run has met its quota
QuotasMet(created_insofar) ==
    \A t \in Threads : created_insofar[t] = num_edges_to_create[t]

\* C3: two runs with the same seed and the same number of threads, so with the
\* same stream of draws in each thread, end with the same set of edges, whatever
\* the interleaving of the threads in either run.
C3_SameSeedSameEdges ==
    (QuotasMet(num_edges_created_insofar) /\ QuotasMet(rerun.num_edges_created_insofar))
        => edges_created = rerun.edges_created

\* ------------------------------------------------------------------ properties (3)
\* every thread make_edges is to spawn runs or has run, and has met its quota
AllQuotasMet ==
    \A t \in Threads :
        t < hardware_concurrency =>
            /\ thread_state[t] \in {"running", "finished"}
            /\ num_edges_created_insofar[t] = num_edges_to_create[t]

\* C11: when the target exceeds num_vertices * (num_vertices - 1) / 2 and there
\* is at least one thread, the run never completes: the threads never all meet
\* their quotas, main stays in make_edges before the end of its joins, the
\* process has not exited (no error, no abort) and nothing exists on disk.
C11_OverCeilingNeverCompletes ==
    (Parsed /\ hardware_concurrency >= 1 /\ ~WithinCeiling) =>
        /\ pc \in {"make_edges", "spawn", "join"}
        /\ ~AllQuotasMet
        /\ exit_status = "running"
        /\ created = {}
        /\ edges = <<>> /\ vertices = <<>>

\* -V 2 -E 2 on two threads: one thread inserted the only edge and was joined,
\* the other one runs below its quota with no pair left
C11_Witness ==
    /\ g_num_vertices = 2 /\ g_num_edges = 2
    /\ num_threads = 2
    /\ pc = "join" /\ thread_id = 1
    /\ thread_state[0] = "finished"
    /\ thread_state[1] = "running"
    /\ num_edges_created_insofar[1] = 0 /\ num_edges_to_create[1] = 1
    /\ edges_created = {Edge(0, 1)}

\* the command line has one of the errors parse_command_line_arguments reports
ConfigurationError(a) ==
    \/ ~a.has_num_vertices \/ a.num_vertices = 0
    \/ ~a.has_num_edges \/ a.num_edges = 0
    \/ ~a.has_output \/ a.output = ""
    \/ a.has_max_vertex_id /\ a.max_vertex_id[1] < a.max_vertex_id[2]

\* C12: a configuration error (and no --help) ends the process in validation
\* with exit status 1: main goes from parsing straight to its exit, no thread
\* is made, no edge is sampled, no directory and no file is created.
C12_ConfigurationErrorExit ==
    (~argv.help /\ ConfigurationError(argv)) =>
        /\ pc \in {"parse", "exit"}
        /\ (pc = "exit" => exit_status = "EXIT_FAILURE")
        /\ (pc = "parse" => exit_status = "running")
        /\ num_threads = 0
        /\ \A t \in Threads : thread_state[t] = "none"
        /\ edges_created = {} /\ edges = <<>> /\ vertices = <<>>
        /\ created = {}
        /\ file_v = <<>> /\ file_e = <<>>

\* the only error is an expansion factor of 1/2: the process has exited with 1
C12_Witness ==
    /\ argv.has_num_vertices /\ argv.num_vertices = 3
    /\ argv.has_num_edges /\ argv.num_edges = 3
    /\ argv.has_output /\ argv.output = "out/g"
    /\ argv.has_max_vertex_id /\ argv.max_vertex_id = <<1, 2>>
    /\ pc = "exit"
    /\ exit_status = "EXIT_FAILURE"

\* what is on disk follows the order directory, .v, .e, .properties, and the
\* exit status tells whether the last one was reached
OutputOrder ==
    /\ ".v" \in created => "dir" \in created
    /\ ".e" \in created => ".v" \in created
    /\ ".properties" \in created => ".e" \in created
    /\ (Parsed /\ exit_status = "EXIT_SUCCESS") =>
            {".v", ".e", ".properties"} \subseteq created
    /\ (Parsed /\ exit_status = "EXIT_FAILURE") =>
            pc = "exit" /\ ".properties" \notin created
    /\ (pc = "exit" /\ "dir" \in created /\ ".properties" \notin created) =>
            exit_status = "EXIT_FAILURE"

\* no step removes or rewrites a file that was written
FilesStay ==
    /\ created \subseteq created'
    /\ ".v" \in created => file_v' = file_v
    /\ ".e" \in created => file_e' = file_e
    /\ ".properties" \in created => file_properties' = file_properties

\* C13: in a run that generates a graph the files are created in the order .v,
\* .e, .properties; a failure to create one ends the run with exit status 1
\* before any later file is created, no step removes or changes a file already
\* written, and the exit status is 0 only with all three files written.
C13_OutputOrderAndFailure == []OutputOrder /\ [][FilesStay]_vars

\* creating .e failed: the run ended with 1, .v is in place, no .properties
C13_Witness ==
    /\ pc = "exit"
    /\ exit_status = "EXIT_FAILURE"
    /\ created = {"dir", ".v"}
    /\ file_v = <<1, 2, 3>>
    /\ file_e = <<>>

\* main is past its joins: it reads the table, checks the count, sorts, writes
ReadingOut ==
    \/ pc \in {"collect", "make_vertices", "mkdir", "save_vertices", "save_edges",
               "save_properties"}
    \/ edges # <<>>

\* every thread has returned from create_edges with its quota met
AllThreadsTerminated ==
    /\ num_threads = hardware_concurrency
    /\ \A t \in Threads :
          t < num_threads =>
             /\ thread_state[t] = "finished"
             /\ num_edges_created_insofar[t] = num_edges_to_create[t]
    /\ \A t \in Threads : ~ENABLED create_edges(t)

\* C14: the table is read out only after every thread has terminated: while
\* main reads, checks, sorts or writes, no thread is running, below its quota or
\* able to insert; from then on no step modifies the table, and the vector holds
\* exactly the edges of the table.
C14_ReadOutAfterJoin ==
    /\ [](ReadingOut => AllThreadsTerminated)
    /\ [](edges # <<>> => Range(edges) = edges_created)
    /\ [][ReadingOut => edges_created' = edges_created]_vars

\* main has just left the joins of two threads that inserted three edges
C14_Witness ==
    /\ pc = "collect"
    /\ num_threads = 2
    /\ thread_state[0] = "finished" /\ thread_state[1] = "finished"
    /\ num_edges_created_insofar[0] = 2 /\ num_edges_created_insofar[1] = 1
    /\ Cardinality(edges_created) = 3
    /\ edges = <<>>

\* ------------------------------------------------------------------ the quotas
\* make_edges at its loop of emplace_back, for num_edges edges and nthreads threads
AtSpawn(num_edges, nthreads) ==
    /\ argv = [help |-> FALSE,
               has_num_vertices |-> TRUE, num_vertices |-> 1,
               has_num_edges |-> TRUE, num_edges |-> num_edges,
               has_max_vertex_id |-> FALSE, max_vertex_id |-> <<1, 1>>,
               has_output |-> TRUE, output |-> "out/g",
               has_seed |-> FALSE, seed |-> 42]
    /\ hardware_concurrency = nthreads
    /\ g_exp_factor_vertex_id = <<1, 1>>
    /\ g_num_edges = num_edges
    /\ g_num_vertices = 1
    /\ g_output_prefix = "out/g"
    /\ g_seed = 7
    /\ pc = "spawn"
    /\ exit_status = "running"
    /\ num_threads = nthreads
    /\ thread_id = 0
    /\ thread_state = [t \in 0 .. (nthreads - 1) |-> "none"]
    /\ num_edges_to_create = [t \in 0 .. (nthreads - 1) |-> 0]
    /\ num_edges_created_insofar = [t \in 0 .. (nthreads - 1) |-> 0]
    /\ edges_created = {}
    /\ edges = <<>>
    /\ vertices = <<>>
    /\ created = {}
    /\ file_v = <<>>
    /\ file_e = <<>>
    /\ file_properties = [vertices |-> 0, edges |-> 0]
    /\ mt19937_64 = <<>>
    /\ random_generator = [t \in Threads |-> 0]
    /\ rerun = <<>>

QuotaInit ==
    \E num_edges \in 0 .. MaxQuotaEdges : \E nthreads \in 1 .. MaxQuotaThreads :
        AtSpawn(num_edges, nthreads)
QuotaNext == emplace_back
QuotaSpec == QuotaInit /\ [][QuotaNext]_vars

\* f[0] + ... + f[n - 1]
RECURSIVE SumUpTo(_, _)
SumUpTo(f, n) == IF n = 0 THEN 0 ELSE f[n - 1] + SumUpTo(f, n - 1)

\* the threads that have been given their quota
Spawned == IF pc = "spawn" THEN thread_id ELSE num_threads

\* C15: for num_edges >= 0 and num_threads >= 1, the quotas given to the threads
\* 0 .. num_threads - 1 differ from one another by at most 1 and, once all are
\* given, sum to exactly num_edges.
C15_QuotasPartition ==
    pc \in {"spawn", "join"} =>
        /\ \A i, j \in 0 .. (Spawned - 1) :
              num_edges_to_create[i] - num_edges_to_create[j] <= 1
        /\ SumUpTo(num_edges_to_create, Spawned) <= g_num_edges
        /\ pc = "join" => SumUpTo(num_edges_to_create, num_threads) = g_num_edges

\* 2 edges on 5 threads: the quotas 1, 1, 0, 0, 0
C15_Witness ==
    /\ pc = "join"
    /\ g_num_edges = 2 /\ num_threads = 5
    /\ num_edges_to_create = [t \in 0 .. 4 |-> IF t < 2 THEN 1 ELSE 0]

\* ------------------------------------------------------------------ properties (4)
\* the counters of the threads add up to the size of the table, each within its quota
CountersMatchTable ==
    /\ SumUpTo(num_edges_created_insofar, MaxThreads) = Cardinality(edges_created)
    /\ \A t \in Threads : num_edges_created_insofar[t] <= num_edges_to_create[t]

\* a step credits a thread exactly when it adds its edge to the table
InsertCredits ==
    /\ edges_created \subseteq edges_created'
    /\ Cardinality(edges_created') <= Cardinality(edges_created) + 1
    /\ \A t \in Threads :
          /\ num_edges_created_insofar'[t] \in
                 {num_edges_created_insofar[t], num_edges_created_insofar[t] + 1}
          /\ (thread_state[t] # "none"
                  /\ num_edges_created_insofar[t] = num_edges_to_create[t]) =>
                 num_edges_created_insofar'[t] = num_edges_created_insofar[t]
    /\ \A t, u \in Threads :
          (num_edges_created_insofar'[t] # num_edges_created_insofar[t]
              /\ num_edges_created_insofar'[u] # num_edges_created_insofar[u]) => t = u
    /\ (edges_created' # edges_created) <=>
          (\E t \in Threads : num_edges_created_insofar'[t] = num_edges_created_insofar[t] + 1)

\* C16: in every state the counters num_edges_created_insofar of the threads sum
\* to the number of edges in edges_created and none exceeds its quota; a step
\* increments one thread's counter if and only if it adds an edge to the table,
\* and a thread that has met its quota (0 included) is credited no more.
C16_CountersMatchTable == []CountersMatchTable /\ [][InsertCredits]_vars

\* two running threads, each credited with one of the two edges of the table
C16_Witness ==
    /\ pc = "join"
    /\ thread_state[0] = "running" /\ thread_state[1] = "running"
    /\ num_edges_to_create[0] = 2 /\ num_edges_to_create[1] = 1
    /\ num_edges_created_insofar[0] = 1 /\ num_edges_created_insofar[1] = 1
    /\ edges_created = {Edge(0, 1), Edge(1, 2)}

\* what one step does to a run's table, counters and engine positions
StepFrame(table, table_next, counters, counters_next, drawn, drawn_next) ==
    /\ table \subseteq table_next
    /\ Cardinality(table_next \ table) <= 1
    /\ \A t, u \in Threads :
          (t # u /\ (drawn_next[t] # drawn[t] \/ counters_next[t] # counters[t])) =>
              (drawn_next[u] = drawn[u] /\ counters_next[u] = counters[u])
    /\ \A t \in Threads :
          /\ drawn_next[t] \in {drawn[t], drawn[t] + 2}
          /\ counters_next[t] \in {counters[t], counters[t] + 1}
          /\ counters_next[t] # counters[t] => drawn_next[t] # drawn[t]
    /\ (table_next # table) <=> (\E t \in Threads : counters_next[t] = counters[t] + 1)

\* C17: a step of the thread t changes only t's own engine position and counter
\* and adds at most one edge to the table; it removes no edge, leaves the
\* positions, counters and quotas of the other threads as they were and reads or
\* extends no engine stream but t's own; a rejected draw (self-loop or
\* duplicate) leaves the table and every counter unchanged.
C17_WorkerStepFrame ==
    [][/\ StepFrame(edges_created, edges_created',
                    num_edges_created_insofar, num_edges_created_insofar',
                    random_generator, random_generator')
       /\ StepFrame(rerun.edges_created, rerun.edges_created',
                    rerun.num_edges_created_insofar, rerun.num_edges_created_insofar',
                    rerun.random_generator, rerun.random_generator')
       /\ num_edges_to_create' = num_edges_to_create
       /\ thread_state' = thread_state
       /\ \A t \in Threads :
             (random_generator'[t] = random_generator[t]
                 /\ rerun.random_generator'[t] = rerun.random_generator[t]) =>
                 mt19937_64'[thread_seed(t)] = mt19937_64[thread_seed(t)]]_vars

\* thread 0 has drawn twice and was credited once (one draw rejected), thread 1
\* has drawn once and was credited
C17_Witness ==
    /\ DOMAIN mt19937_64 = {thread_seed(t) : t \in Threads}
    /\ num_threads = 2
    /\ random_generator[0] = 4 /\ num_edges_created_insofar[0] = 1
    /\ random_generator[1] = 2 /\ num_edges_created_insofar[1] = 1
    /\ Cardinality(edges_created) = 2
    /\ Len(mt19937_64[thread_seed(0)]) = 4

WideArgs == {a \in Options(MaxVerticesWide, MaxVerticesWide, {<<1, 1>>}) : WellFormed(a)}

ParseInit == \E a \in WideArgs : Start(a)
ParseNext == parse_command_line_arguments
ParseSpec == ParseInit /\ [][ParseNext]_vars

\* C19: when the command line passes validation with 0 < num_edges <
\* num_vertices, the target g_num_edges the parser leaves satisfies
\* 0 < g_num_edges <= num_vertices * (num_vertices - 1) / 2.
C19_ReinterpretedWithinCeiling ==
    (Parsed /\ 0 < argv.num_edges /\ argv.num_edges < argv.num_vertices) =>
        /\ g_num_vertices = argv.num_vertices
        /\ 0 < g_num_edges
        /\ 2 * g_num_edges <= g_num_vertices * (g_num_vertices - 1)
        /\ g_num_edges <= MaxSimpleEdges(g_num_vertices)

\* -V 7 -E 6: the target is 6 * 3 = 18 of the 21 possible edges
C19_Witness ==
    /\ pc = "make_edges"
    /\ argv.num_vertices = 7 /\ argv.num_edges = 6
    /\ g_num_vertices = 7
    /\ g_num_edges = 18

====
